---- MODULE Spec2Model ----
(***************************************************************************)
(* Model of pansgpt_app.py: the PDF-to-flattened-document pipeline         *)
(* (process_pdf_file with upload_image_to_storage and analyze_image_groq), *)
(* the "Start Processing" handler with log_upload_to_db, and               *)
(* delete_document.                                                        *)
(*                                                                         *)
(* Strings are sequences of one-character strings, so that split, replace, *)
(* strip, join, f-string formatting and re.findall are computed the way    *)
(* Python computes them.                                                   *)
(***************************************************************************)
EXTENDS Integers, Sequences, FiniteSets, TLC

VARIABLES
    uploaded_file,   \* the file held by st.file_uploader: [name, readable, pages]
    GROQ_API_KEY,    \* TRUE iff the secret is set
    creds,           \* TRUE iff SUPABASE_URL and SUPABASE_KEY are both set
    supabase,        \* TRUE iff the client object is not None
    bucket,          \* blob store: the set of object names in SUPABASE_BUCKET
    db,              \* metadata store: the rows of table "documents"
    nextId,          \* the next identifier the metadata store assigns
    clicks,          \* "Start Processing" clicks the user still makes
    pc,              \* position of the script: idle, page, block, returned
    total_pages,     \* process_pdf_file: len(doc)
    i,               \* process_pdf_file: index of enumerate(doc)
    blocks,          \* process_pdf_file: the sorted blocks of page i
    bi,              \* process_pdf_file: position in "for block in blocks"
    full_content,    \* process_pdf_file: the accumulated output
    image_count,     \* process_pdf_file: the per-document image ordinal
    prog,            \* values passed to st.progress / prog_bar.progress, in order
    frags,           \* fragments appended to full_content, in order, with origin
    tokens,          \* image tokens appended to full_content, in order
    storeCalls,      \* calls of upload_image_to_storage in this run
    visionCalls,     \* calls of analyze_image_groq in this run
    outcome,         \* how the last run of the handler ended
    delInfo          \* what the last delete_document call did

vars == <<uploaded_file, GROQ_API_KEY, creds, supabase, bucket, db, nextId,
          clicks, pc, total_pages, i, blocks, bi, full_content, image_count,
          prog, frags, tokens, storeCalls, visionCalls, outcome, delInfo>>

\* ------------------------------------------------------------------ bounds

MaxPages == 2
MaxRuns == 2

\* --------------------------------------------------------- string helpers

Min(S) == CHOOSE x \in S : \A y \in S : x <= y
Max(S) == CHOOSE x \in S : \A y \in S : x >= y

\* sub in s
Contains(sub, s) ==
    \E k \in 0..(Len(s) - Len(sub)) : SubSeq(s, k + 1, k + Len(sub)) = sub

\* start positions (1-based) of the occurrences of sub in s at or after p
Occurrences(sub, s, p) ==
    {k \in p..(Len(s) - Len(sub) + 1) : SubSeq(s, k, k + Len(sub) - 1) = sub}

\* s.replace(from, to) for single characters
Replace(s, from, to) == [k \in 1..Len(s) |-> IF s[k] = from THEN to ELSE s[k]]

\* s.split(ch)[0]
SplitFirst(s, ch) ==
    LET ks == {k \in 1..Len(s) : s[k] = ch}
    IN  IF ks = {} THEN s ELSE SubSeq(s, 1, Min(ks) - 1)

\* s.split(sep)[-1]: split scans left to right over non-overlapping matches
RECURSIVE SplitLast(_, _)
SplitLast(s, sep) ==
    LET ks == Occurrences(sep, s, 1)
    IN  IF ks = {} THEN s
        ELSE SplitLast(SubSeq(s, Min(ks) + Len(sep), Len(s)), sep)

Whitespace == {" ", "\n", "\t", "\r"}

\* s.strip()
Strip(s) ==
    LET ks == {k \in 1..Len(s) : s[k] \notin Whitespace}
    IN  IF ks = {} THEN <<>> ELSE SubSeq(s, Min(ks), Max(ks))

\* sep.join(parts)
RECURSIVE Join(_, _)
Join(parts, sep) ==
    IF parts = <<>> THEN <<>>
    ELSE IF Len(parts) = 1 THEN parts[1]
    ELSE parts[1] \o sep \o Join(Tail(parts), sep)

\* concatenation of a sequence of sequences
RECURSIVE Flatten(_)
Flatten(ss) == IF ss = <<>> THEN <<>> ELSE ss[1] \o Flatten(Tail(ss))

Digit(d) == <<"0", "1", "2", "3", "4", "5", "6", "7", "8", "9">>[d + 1]

\* str(n) for n >= 0, as in an f-string
RECURSIVE Str(_)
Str(n) == IF n < 10 THEN <<Digit(n)>> ELSE Str(n \div 10) \o <<Digit(n % 10)>>

\* re.findall(r'url="([^"]+)"', s): leftmost non-overlapping matches from p
UrlAttr == <<"u", "r", "l", "=", "\"">>

RECURSIVE FindAllFrom(_, _)
FindAllFrom(s, p) ==
    LET ks == Occurrences(UrlAttr, s, p)
    IN  IF ks = {} THEN <<>>
        ELSE LET k  == Min(ks)
                 qs == {q \in (k + 5)..Len(s) : s[q] = "\""}
             IN  IF qs = {} THEN <<>>
                 ELSE IF Min(qs) = k + 5 THEN FindAllFrom(s, k + 1)
                 ELSE <<SubSeq(s, k + 5, Min(qs) - 1)>> \o FindAllFrom(s, Min(qs) + 1)

FindAll(s) == FindAllFrom(s, 1)

\* ----------------------------------------------------- program constants

\* the configured project URL
SUPABASE_URL == <<"h", "t", "t", "p", ":", "/", "/", "s">>

SUPABASE_BUCKET ==
    <<"l", "e", "c", "t", "u", "r", "e", "-", "i", "m", "a", "g", "e", "s">>

\* f"/{SUPABASE_BUCKET}/"
BucketPath == <<"/">> \o SUPABASE_BUCKET \o <<"/">>

CredentialsMissingUrl ==
    <<"h", "t", "t", "p", "s", ":", "/", "/", "p", "l", "a", "c", "e", "h",
      "o", "l", "d", "e", "r", ".", "u", "r", "l", "/", "c", "r", "e", "d",
      "e", "n", "t", "i", "a", "l", "s", "_", "m", "i", "s", "s", "i", "n",
      "g", ".", "p", "n", "g">>

UploadFailedUrl ==
    <<"h", "t", "t", "p", "s", ":", "/", "/", "p", "l", "a", "c", "e", "h",
      "o", "l", "d", "e", "r", ".", "u", "r", "l", "/", "u", "p", "l", "o",
      "a", "d", "_", "f", "a", "i", "l", "e", "d", ".", "p", "n", "g">>

ErrorUrl ==
    <<"h", "t", "t", "p", "s", ":", "/", "/", "p", "l", "a", "c", "e", "h",
      "o", "l", "d", "e", "r", ".", "u", "r", "l", "/", "e", "r", "r", "o",
      "r", ".", "p", "n", "g">>

PlaceholderUrls == {CredentialsMissingUrl, UploadFailedUrl, ErrorUrl}

Duplicate == <<"D", "u", "p", "l", "i", "c", "a", "t", "e">>

\* f"{SUPABASE_URL}/storage/v1/object/public/{SUPABASE_BUCKET}/{filename}"
FinalUrl(filename) ==
    SUPABASE_URL
    \o <<"/", "s", "t", "o", "r", "a", "g", "e", "/", "v", "1", "/", "o", "b",
      "j", "e", "c", "t", "/", "p", "u", "b", "l", "i", "c", "/">>
    \o SUPABASE_BUCKET \o <<"/">> \o filename


\* ------------------------------------------------- the external services

\* What the storage endpoint can answer to the POST of line 164 for an object
\* name: a new object is stored (200), refused (500) or the request faults; an
\* object already there is reported as a duplicate (409, or 400 with
\* "Duplicate" in the body) or the request is refused.
StoreResponses(filename) ==
    IF filename \in bucket
    THEN {[kind |-> "response", status_code |-> 409, text |-> <<>>],
          [kind |-> "response", status_code |-> 400, text |-> Duplicate],
          [kind |-> "response", status_code |-> 500, text |-> <<>>]}
    ELSE {[kind |-> "response", status_code |-> 200, text |-> <<>>],
          [kind |-> "response", status_code |-> 500, text |-> <<>>],
          [kind |-> "raise", status_code |-> 0, text |-> <<>>]}

\* What the vision call of line 179 can produce: a description (here with a
\* leading blank and a double quote in it), a blank completion, or an exception
\* with a message.
VisionOutcomes ==
    {[kind |-> "content", text |-> <<" ", "d", "\"", "e">>],
     [kind |-> "content", text |-> <<" ">>],
     [kind |-> "raise",   text |-> <<"4", "2", "9">>]}

\* ------------------------------------------------------ pure functions

\* upload_image_to_storage: the URL returned, given the endpoint's answer
UploadResultAlwaysFinal(filename, response) == FinalUrl(filename)

upload_image_to_storage(filename, response) ==
    IF ~creds THEN CredentialsMissingUrl
    ELSE IF response.kind = "raise" THEN ErrorUrl
    ELSE IF \/ response.status_code = 200
            \/ response.status_code = 409
            \/ Contains(Duplicate, response.text)
         THEN FinalUrl(filename)
         ELSE UploadFailedUrl

\* the bucket after the POST: only a 200 stores a new object
BucketAfterUpload(filename, response) ==
    IF creds /\ response.kind = "response" /\ response.status_code = 200
    THEN bucket \cup {filename}
    ELSE bucket

\* analyze_image_groq: the string returned, given the outcome of the call
analyze_image_groq(outcome_) ==
    IF outcome_.kind = "content" THEN Strip(outcome_.text)
    ELSE <<"[", "V", "i", "s", "i", "o", "n", " ", "E", "r", "r", "o", "r", ":",
           " ">> \o outcome_.text \o <<"]">>

\* len(img_bytes) < 2048
IsNoiseHalf(img_len) == img_len < 1024

IsNoise(img_len) == img_len < 2048

\* uploaded_file.name.split('.')[0].replace(" ", "_")
CleanName(name) == Replace(SplitFirst(name, "."), " ", "_")

\* f"doc_{clean_name}_p{i}_img{image_count}.{block['ext']}"
Fname(name, page_i, count, ext) ==
    <<"d", "o", "c", "_">> \o CleanName(name) \o <<"_", "p">> \o Str(page_i)
    \o <<"_", "i", "m", "g">> \o Str(count) \o <<".">> \o ext

\* f"Img {image_count} (Page {i+1})"
Caption(count, page_i) ==
    <<"I", "m", "g", " ">> \o Str(count) \o <<" ", "(", "P", "a", "g", "e", " ">>
    \o Str(page_i + 1) \o <<")">>

\* the token of line 230, with the "\n" of line 232
Token(pub_url, count, page_i, clean_desc) ==
    <<"\n", "<", "<", "S", "L", "I", "D", "E", "_", "I", "M", "A", "G", "E", ":",
      " ", "u", "r", "l", "=", "\"">> \o pub_url
    \o <<"\"", " ", "c", "a", "p", "t", "i", "o", "n", "=", "\"">>
    \o Caption(count, page_i)
    \o <<"\"", " ", "c", "o", "n", "t", "e", "x", "t", "=", "\"">> \o clean_desc
    \o <<"\"", ">", ">", "\n">> \o <<"\n">>

\* " ".join([span["text"] for line in block["lines"] for span in line["spans"]])
BlockText(block) == Join(Flatten(block.lines), <<" ">>)

\* page.get_text("dict")["blocks"]: the extractor's list; n is the position the
\* extractor reported the block at
GetBlocks(page) ==
    [k \in 1..Len(page) |->
        [type |-> page[k].type, bbox |-> page[k].bbox, lines |-> page[k].lines,
         image |-> page[k].image, ext |-> page[k].ext, n |-> k]]

\* blocks.sort(key=lambda b: b["bbox"][1]): list.sort is stable
InsertBefore(sorted, b) ==
    LET m == Cardinality({j \in 1..Len(sorted) : sorted[j].bbox[2] < b.bbox[2]})
    IN  SubSeq(sorted, 1, m) \o <<b>> \o SubSeq(sorted, m + 1, Len(sorted))

Insert(sorted, b) ==
    LET m == Cardinality({j \in 1..Len(sorted) : sorted[j].bbox[2] <= b.bbox[2]})
    IN  SubSeq(sorted, 1, m) \o <<b>> \o SubSeq(sorted, m + 1, Len(sorted))

RECURSIVE SortBlocks(_)
SortBlocks(bs) ==
    IF bs = <<>> THEN <<>>
    ELSE Insert(SortBlocks(SubSeq(bs, 1, Len(bs) - 1)), bs[Len(bs)])

\* (i + 1) / total_pages, a float, kept as numerator and denominator
PageProgressBefore(page_i, total) == [type |-> "float", num |-> page_i, den |-> total]

PageProgress(page_i, total) == [type |-> "float", num |-> page_i + 1, den |-> total]

\* an int passed to st.progress is a percentage
IntProgress(v) == [type |-> "int", num |-> v, den |-> 100]


\* ------------------------------------------------------------- inputs

Png == <<"p", "n", "g">>
Jpeg == <<"j", "p", "e", "g">>

\* a text block: lines is a list of lines, a line a list of span texts
TextBlock(y, lines) ==
    [type |-> 0, bbox |-> <<0, y, 10, y + 1>>, lines |-> lines, image |-> 0,
     ext |-> <<>>]

\* an image block: image is len(block["image"])
ImageBlock(y, img_len, ext) ==
    [type |-> 1, bbox |-> <<0, y, 10, y + 1>>, lines |-> <<>>, image |-> img_len,
     ext |-> ext]

OneSpan(text) == << <<text>> >>

BlockA == TextBlock(1, OneSpan(<<"a">>))
BlockB == TextBlock(1, OneSpan(<<"b">>))
BlockC == TextBlock(0, OneSpan(<<"c">>))

\* three orders in which the extractor can report three text blocks, two of
\* them with the same top edge
PermutedPages ==
    {<<BlockB, BlockA, BlockC>>, <<BlockA, BlockC, BlockB>>,
     <<BlockC, BlockB, BlockA>>}

\* text below an image that shares its top edge with later text
PageMixed ==
    <<TextBlock(2, OneSpan(<<"b">>)), ImageBlock(1, 2048, Jpeg),
      TextBlock(1, OneSpan(<<"a">>))>>

\* a blank text block, and one of two lines and three spans
PageSpans ==
    <<TextBlock(0, OneSpan(<<" ">>)),
      TextBlock(0, << <<<<"c">>, <<"d">>>>, <<<<"e", "\n">>>> >>)>>

\* an icon one byte below the threshold, above a line of text
PageIcon == <<ImageBlock(0, 2047, Png), TextBlock(0, OneSpan(<<"t">>))>>

\* slide text that itself reads url="x"
PageQuoted == <<TextBlock(0, OneSpan(<<"u", "r", "l", "=", "\"", "x", "\"">>))>>

PageEmpty == <<>>

PagePool == PermutedPages \cup {PageMixed, PageSpans, PageIcon, PageQuoted, PageEmpty}

RECURSIVE SeqsUpTo(_, _)
SeqsUpTo(S, n) ==
    IF n = 0 THEN {<<>>}
    ELSE LET shorter == SeqsUpTo(S, n - 1)
         IN  shorter \cup {Append(q, x) : q \in {r \in shorter : Len(r) = n - 1}, x \in S}

FileName == <<"a", " ", "b", ".", "p", "d", "f">>

\* the files the uploader can hold: readable PDFs of 0..MaxPages pages, and a
\* buffer fitz.open rejects
FileSet ==
    {[name |-> FileName, readable |-> TRUE, pages |-> ps] : ps \in SeqsUpTo(PagePool, MaxPages)}
    \cup {[name |-> FileName, readable |-> FALSE, pages |-> <<>>]}

\* small files for runs that repeat
StoreFileSet ==
    {[name |-> FileName, readable |-> TRUE, pages |-> ps] :
        ps \in {<<PageMixed>>, <<PageIcon, PageMixed>>, <<PageSpans>>}}

NoDelete ==
    [id |-> 0, calls |-> <<>>, found |-> FALSE, files |-> {}, removed |-> FALSE,
     deleted |-> FALSE]

\* ------------------------------------------------------------ the state

InitRun ==
    /\ pc = "idle"
    /\ total_pages = 0
    /\ i = 0
    /\ blocks = <<>>
    /\ bi = 1
    /\ full_content = <<>>
    /\ image_count = 0
    /\ prog = <<>>
    /\ frags = <<>>
    /\ tokens = <<>>
    /\ storeCalls = 0
    /\ visionCalls = 0
    /\ outcome = "none"
    /\ delInfo = NoDelete
    /\ db = {}
    /\ nextId = 1

\* one click on any file, with and without the secrets (the client exists only
\* with both Supabase secrets, and create_client may have failed), the stores
\* empty
Init ==
    /\ uploaded_file \in FileSet
    /\ GROQ_API_KEY \in BOOLEAN
    /\ creds \in BOOLEAN
    /\ supabase \in {c \in BOOLEAN : c => creds}
    /\ bucket = {}
    /\ clicks = 1
    /\ InitRun

\* up to MaxRuns clicks on a small file, everything configured
InitStore ==
    /\ uploaded_file \in StoreFileSet
    /\ GROQ_API_KEY = TRUE
    /\ creds = TRUE
    /\ supabase = TRUE
    /\ bucket = {}
    /\ clicks = MaxRuns
    /\ InitRun

config == <<uploaded_file, GROQ_API_KEY, creds, supabase>>
stores == <<bucket, db, nextId, delInfo>>
ghosts == <<frags, tokens, storeCalls, visionCalls>>

\* ----------------------------------------------------------- the actions

\* lines 271-276 and 196-203: the click, the key check, fitz.open and the
\* set-up of process_pdf_file
StartProcessing ==
    /\ pc = "idle"
    /\ clicks > 0
    /\ clicks' = clicks - 1
    /\ frags' = <<>>
    /\ tokens' = <<>>
    /\ storeCalls' = 0
    /\ visionCalls' = 0
    /\ blocks' = <<>>
    /\ bi' = 1
    /\ i' = 0
    /\ full_content' = <<>>
    /\ image_count' = 0
    /\ IF ~GROQ_API_KEY
       THEN /\ outcome' = "no_key"
            /\ prog' = <<>>
            /\ UNCHANGED <<pc, total_pages>>
       ELSE IF ~uploaded_file.readable
       THEN /\ outcome' = "raised"
            /\ prog' = <<>>
            /\ UNCHANGED <<pc, total_pages>>
       ELSE /\ outcome' = "running"
            /\ prog' = <<IntProgress(0)>>
            /\ total_pages' = Len(uploaded_file.pages)
            /\ pc' = "page"
    /\ UNCHANGED <<config, stores>>

\* lines 205-210: the head of the page loop
BeginPage ==
    /\ pc = "page"
    /\ i < total_pages
    /\ prog' = Append(prog, PageProgress(i, total_pages))
    /\ blocks' = SortBlocks(GetBlocks(uploaded_file.pages[i + 1]))
    /\ bi' = 1
    /\ pc' = "block"
    /\ UNCHANGED <<config, stores, ghosts, clicks, total_pages, i, full_content,
                   image_count, outcome>>

\* lines 213-215: a text block
ProcessText(block) ==
    LET text == BlockText(block)
    IN  /\ IF Strip(text) # <<>>
           THEN /\ full_content' = full_content \o Strip(text) \o <<"\n", "\n">>
                /\ frags' = Append(frags, [kind |-> "text", page |-> i + 1,
                                           n |-> block.n, y |-> block.bbox[2]])
           ELSE UNCHANGED <<full_content, frags>>
        /\ UNCHANGED <<image_count, tokens, storeCalls, visionCalls, bucket>>

\* lines 217-233: an image block
ProcessImage(block) ==
    /\ image_count' = image_count + 1
    /\ IF IsNoise(block.image)
       THEN UNCHANGED <<full_content, frags, tokens, storeCalls, visionCalls, bucket>>
       ELSE LET fname == Fname(uploaded_file.name, i, image_count', block.ext)
            IN  \E response \in (IF creds THEN StoreResponses(fname)
                                 ELSE {[kind |-> "none", status_code |-> 0, text |-> <<>>]}),
                   vision \in VisionOutcomes :
                    LET pub_url    == upload_image_to_storage(fname, response)
                        desc       == analyze_image_groq(vision)
                        clean_desc == Replace(desc, "\"", "'")
                    IN  /\ full_content' =
                              full_content \o Token(pub_url, image_count', i, clean_desc)
                        /\ bucket' = BucketAfterUpload(fname, response)
                        /\ storeCalls' = storeCalls + 1
                        /\ visionCalls' = visionCalls + 1
                        /\ frags' = Append(frags, [kind |-> "image", page |-> i + 1,
                                                   n |-> block.n, y |-> block.bbox[2]])
                        /\ tokens' = Append(tokens,
                              [url |-> pub_url, key |-> fname, page_i |-> i,
                               ordinal |-> image_count', caption |-> Caption(image_count', i),
                               context |-> clean_desc, response |-> response,
                               vision |-> vision])

\* lines 212-233: one iteration of "for block in blocks"
ProcessBlock ==
    /\ pc = "block"
    /\ bi <= Len(blocks)
    /\ IF blocks[bi].type = 0 THEN ProcessText(blocks[bi]) ELSE ProcessImage(blocks[bi])
    /\ bi' = bi + 1
    /\ UNCHANGED <<config, db, nextId, delInfo, clicks, pc, total_pages, i, blocks,
                   prog, outcome>>

\* the block loop is exhausted: enumerate(doc) moves on
EndPage ==
    /\ pc = "block"
    /\ bi > Len(blocks)
    /\ i' = i + 1
    /\ pc' = "page"
    /\ UNCHANGED <<config, stores, ghosts, clicks, total_pages, blocks, bi,
                   full_content, image_count, prog, outcome>>

\* lines 235-237: the page loop is exhausted
Finish ==
    /\ pc = "page"
    /\ i >= total_pages
    /\ prog' = Append(prog, IntProgress(100))
    /\ pc' = "returned"
    /\ UNCHANGED <<config, stores, ghosts, clicks, total_pages, i, blocks, bi,
                   full_content, image_count, outcome>>

\* lines 72-98: log_upload_to_db; the insert succeeds or raises
log_upload_to_db(processed_text, inserted) ==
    IF supabase /\ inserted
    THEN /\ db' = db \cup {[id |-> nextId, filename |-> uploaded_file.name,
                            status |-> "processed", content |-> processed_text]}
         /\ nextId' = nextId + 1
    ELSE UNCHANGED <<db, nextId>>

\* lines 276-288: the handler after process_pdf_file returned
Complete ==
    /\ pc = "returned"
    /\ pc' = "idle"
    /\ IF full_content # <<>>
       THEN /\ outcome' = "complete"
            /\ \E inserted \in BOOLEAN : log_upload_to_db(full_content, inserted)
       ELSE /\ outcome' = "nothing"
            /\ UNCHANGED <<db, nextId>>
    /\ UNCHANGED <<config, bucket, delInfo, ghosts, clicks, total_pages, i, blocks,
                   bi, full_content, image_count, prog>>

\* lines 111-121: the object names delete_document takes from a content
FilesToRemove(content) ==
    LET urls == FindAll(content)
    IN  {SplitLast(urls[k], BucketPath) :
            k \in {j \in 1..Len(urls) : Contains(BucketPath, urls[j])}}

\* lines 108-121: the names taken from the rows the select returned
FilesOfRows(rows) ==
    IF rows = {} THEN {} ELSE FilesToRemove((CHOOSE r \in rows : TRUE).content)

\* lines 100-137: delete_document; each of the three requests (the select of
\* line 107, the storage remove of line 126, the delete of line 134) succeeds
\* or raises
DeleteSkippedOnError(doc_id) ==
    \E rows \in {{r \in db : r.id = doc_id}} :
    \E names \in {FilesOfRows(rows)} :
    \E selected \in BOOLEAN, removed \in BOOLEAN, deleted \in BOOLEAN :
        LET files == IF selected THEN names ELSE {}
            threw == ~selected \/ (files # {} /\ ~removed)
        IN  /\ supabase
            /\ bucket' = IF files # {} /\ removed THEN bucket \ files ELSE bucket
            /\ db' = IF deleted /\ ~threw THEN {r \in db : r.id # doc_id} ELSE db
            /\ delInfo' = [id |-> doc_id,
                           calls |-> <<"select">>
                                     \o (IF files # {} THEN <<"remove">> ELSE <<>>)
                                     \o (IF threw THEN <<>> ELSE <<"delete">>),
                           found |-> selected /\ rows # {}, files |-> files,
                           removed |-> files # {} /\ removed,
                           deleted |-> deleted /\ ~threw]

delete_document(doc_id) ==
    \E rows \in {{r \in db : r.id = doc_id}} :
    \E names \in {FilesOfRows(rows)} :
    \E selected \in BOOLEAN, removed \in BOOLEAN, deleted \in BOOLEAN :
        LET files == IF selected THEN names ELSE {}
        IN  /\ supabase
            /\ bucket' = IF files # {} /\ removed THEN bucket \ files ELSE bucket
            /\ db' = IF deleted THEN {r \in db : r.id # doc_id} ELSE db
            /\ delInfo' = [id |-> doc_id,
                           calls |-> <<"select">>
                                     \o (IF files # {} THEN <<"remove">> ELSE <<>>)
                                     \o <<"delete">>,
                           found |-> selected /\ rows # {}, files |-> files,
                           removed |-> files # {} /\ removed, deleted |-> deleted]

\* lines 299-334: the delete button of a row of the history; the row shown
\* may have been deleted since the history was fetched
DeleteDocument ==
    /\ pc = "idle"
    /\ \E doc_id \in 1..(nextId - 1) : delete_document(doc_id)
    /\ UNCHANGED <<config, nextId, ghosts, clicks, pc, total_pages, i, blocks, bi,
                   full_content, image_count, prog, outcome>>

Next ==
    \/ StartProcessing
    \/ BeginPage
    \/ ProcessBlock
    \/ EndPage
    \/ Finish
    \/ Complete
    \/ DeleteDocument

Spec == Init /\ [][Next]_vars

SpecStore == InitStore /\ [][Next]_vars


\* ----------------------------------------------------------- the claims

Range(q) == {q[k] : k \in 1..Len(q)}

\* image blocks of a list at or above the threshold of 2048 bytes
Eligible(bs) == Cardinality({k \in 1..Len(bs) : bs[k].type = 1 /\ bs[k].image >= 2048})

RECURSIVE EligibleInPages(_, _)
EligibleInPages(pages, m) ==
    IF m = 0 THEN 0 ELSE EligibleInPages(pages, m - 1) + Eligible(pages[m])

\* eligible image blocks among the blocks the run has been through
EligibleSoFar ==
    EligibleInPages(uploaded_file.pages, i)
    + (IF pc = "block" THEN Eligible(SubSeq(blocks, 1, bi - 1)) ELSE 0)

SlideImage ==
    <<"<", "<", "S", "L", "I", "D", "E", "_", "I", "M", "A", "G", "E", ":">>

\* C1: at every point of a run, the calls of upload_image_to_storage, the calls
\* of analyze_image_groq and the tokens emitted (counted as emitted, and as
\* "<<SLIDE_IMAGE:" in the output up to its return) are each as many as the
\* image blocks of at least 2048 bytes the run has been through.
C1_CallsMatchEligibleImages ==
    /\ storeCalls = EligibleSoFar
    /\ visionCalls = EligibleSoFar
    /\ Len(tokens) = EligibleSoFar
    /\ pc \in {"block", "page", "returned"} =>
          Cardinality(Occurrences(SlideImage, full_content, 1)) = EligibleSoFar

\* a finished run that skipped an icon and enriched an image
C1_Witness ==
    /\ pc = "returned"
    /\ storeCalls >= 1
    /\ image_count > storeCalls

EmptyContext ==
    <<"c", "o", "n", "t", "e", "x", "t", "=", "\"", "\"", ">", ">">>

\* C2: the context attribute of an emitted token is never the empty string.
C2_ContextNeverEmpty ==
    /\ \A k \in 1..Len(tokens) : tokens[k].context # <<>>
    /\ ~Contains(EmptyContext, full_content)

\* the store refused the upload or the request faulted
StoreFailed(response) ==
    \/ response.kind = "raise"
    \/ /\ response.kind = "response"
       /\ response.status_code \notin {200, 409}
       /\ ~Contains(Duplicate, response.text)

\* what the vision outcome amounts to as a description: the trimmed completion
\* or the bracketed error, double quotes turned into single quotes
ExpectedContext(vision) ==
    Replace(IF vision.kind = "content" THEN Strip(vision.text)
            ELSE <<"[", "V", "i", "s", "i", "o", "n", " ", "E", "r", "r", "o", "r",
                   ":", " ">> \o vision.text \o <<"]">>,
            "\"", "'")

TextsOf(page) ==
    {Strip(BlockText(page[k])) : k \in {j \in 1..Len(page) : page[j].type = 0}} \ {<<>>}

\* C3: while every upload of a run has failed, the run is never stuck after a
\* failed upload and before its end, every token's url is a failure
\* placeholder and no bucket URL, every token's context is the description the
\* vision call gave (or its error marker), and the returned document holds
\* these tokens, the text of every page and one token per eligible image.
C3_StoreDownRunCompletes ==
    (\A k \in 1..Len(tokens) : StoreFailed(tokens[k].response)) =>
        /\ (pc \in {"page", "block"} /\ tokens # <<>>) =>
              \/ ENABLED Finish
              \/ ENABLED EndPage
              \/ ENABLED BeginPage
              \/ ENABLED ProcessBlock
        /\ \A k \in 1..Len(tokens) :
              /\ tokens[k].url \in {UploadFailedUrl, ErrorUrl}
              /\ ~Contains(BucketPath, tokens[k].url)
              /\ tokens[k].context = ExpectedContext(tokens[k].vision)
        /\ pc = "returned" =>
              /\ i = Len(uploaded_file.pages)
              /\ Len(tokens) = EligibleInPages(uploaded_file.pages, Len(uploaded_file.pages))
              /\ \A k \in 1..Len(tokens) :
                    /\ Contains(<<"u", "r", "l", "=", "\"">> \o tokens[k].url
                                \o <<"\"", " ", "c", "a", "p", "t", "i", "o", "n", "=">>,
                                full_content)
                    /\ Contains(<<"c", "o", "n", "t", "e", "x", "t", "=", "\"">>
                                \o tokens[k].context \o <<"\"", ">", ">">>, full_content)
              /\ \A p \in 1..Len(uploaded_file.pages) :
                    \A t \in TextsOf(uploaded_file.pages[p]) :
                        Contains(t \o <<"\n", "\n">>, full_content)

\* a returned two-image document whose uploads failed, one by a fault and one
\* by a refusal
C3_Witness ==
    /\ pc = "returned"
    /\ Len(tokens) = 2
    /\ tokens[1].response.kind = "raise"
    /\ tokens[2].response.kind = "response"
    /\ tokens[2].response.status_code = 500
    /\ TextsOf(uploaded_file.pages[1]) # {}

\* C4: a delete_document call issues the select first and the metadata delete
\* last, with the removal of the blobs the content's bucket URLs name in
\* between; the delete is issued whatever the select and the removal did, and
\* once it succeeds the record is gone.
C4_DeleteAlwaysIssued ==
    delInfo.id # 0 =>
        /\ delInfo.calls[1] = "select"
        /\ delInfo.calls[Len(delInfo.calls)] = "delete"
        /\ delInfo.calls \in {<<"select", "delete">>, <<"select", "remove", "delete">>}
        /\ delInfo.found =>
              /\ delInfo.files =
                    {tokens[k].key :
                        k \in {j \in 1..Len(tokens) : tokens[j].url = FinalUrl(tokens[j].key)}}
              /\ delInfo.files # {} => delInfo.calls = <<"select", "remove", "delete">>
        /\ delInfo.deleted => \A r \in db : r.id # delInfo.id

\* a record naming two stored images, the removal raised, the record deleted
C4_Witness ==
    /\ delInfo.id # 0
    /\ Cardinality(delInfo.files) = 2
    /\ ~delInfo.removed
    /\ delInfo.deleted
    /\ db = {}

\* C5: the URL-attribute pattern applied to a returned document yields the URLs
\* upload_image_to_storage returned for its tokens, in order, and nothing else.
C5_RoundTrip ==
    pc = "returned" => FindAll(full_content) = [k \in 1..Len(tokens) |-> tokens[k].url]

\* the values reported after the initial st.progress(0)
Reports == IF prog = <<>> THEN <<>> ELSE Tail(prog)

PageFractions(m) == [k \in 1..m |-> [type |-> "float", num |-> k, den |-> total_pages]]

\* C6 as stated: the reports are 1/N .. N/N, the k-th made once page k is
\* completed, and nothing else is reported.
C6_ReportedAfterEachPage ==
    (total_pages >= 1 /\ pc \in {"page", "block", "returned"}) =>
        /\ Len(Reports) <= i
        /\ Reports = PageFractions(Len(Reports))
        /\ pc = "returned" => Reports = PageFractions(total_pages)

\* C6 amended: the reports are 1/N .. N/N, the k-th made when the processing of
\* page k begins (k-1 pages completed, none of its blocks processed yet), and
\* after the last page one more report, the integer 100.
C6_ReportedAtPageStart ==
    (total_pages >= 1 /\ outcome \in {"running", "complete", "nothing"}) =>
        /\ pc = "page" => Reports = PageFractions(i)
        /\ pc = "block" => Reports = PageFractions(i + 1)
        /\ pc \in {"returned", "idle"} =>
              Reports = PageFractions(total_pages) \o <<IntProgress(100)>>

\* the second page of a two-page document is being processed
C6_Witness ==
    /\ total_pages = 2
    /\ pc = "block"
    /\ i = 1
    /\ bi > 1

\* C7: fragments come out page by page, within a page by non-decreasing top
\* edge, and with equal top edges in the order the extractor reported them.
C7_ReadingOrder ==
    \A j, k \in 1..Len(frags) :
        j < k =>
            /\ frags[j].page <= frags[k].page
            /\ frags[j].page = frags[k].page =>
                  \/ frags[j].y < frags[k].y
                  \/ frags[j].y = frags[k].y /\ frags[j].n < frags[k].n

\* a returned two-page document with a tie kept in extractor order, a block
\* moved ahead of one reported before it, and an image among the text
C7_Witness ==
    /\ pc = "returned"
    /\ \E j, k \in 1..Len(frags) :
          j < k /\ frags[j].page = frags[k].page /\ frags[j].y = frags[k].y
    /\ \E j, k \in 1..Len(frags) :
          j < k /\ frags[j].page = frags[k].page /\ frags[j].n > frags[k].n
    /\ \E j, k \in 1..Len(frags) : frags[j].page < frags[k].page
    /\ \E j \in 1..Len(frags) : frags[j].kind = "image"

\* C8: a file of zero pages, or one fitz.open rejects, never gets a completion
\* report, a returned document or a record, and only such a file makes a run
\* end by an exception.
C8_EmptyDocumentFails ==
    /\ (~uploaded_file.readable \/ Len(uploaded_file.pages) = 0) =>
          /\ IntProgress(100) \notin Range(prog)
          /\ pc # "returned"
          /\ outcome \notin {"complete", "nothing"}
          /\ db = {}
    /\ outcome = "raised" => (~uploaded_file.readable \/ Len(uploaded_file.pages) = 0)

\* C9: the ordinals of the emitted tokens are 1, 2, .. in emission order, in
\* caption and storage key alike, and the caption's page is the key's page
\* index plus one.
C9_OrdinalsWithoutGaps ==
    \A k \in 1..Len(tokens) :
        /\ tokens[k].ordinal = k
        /\ tokens[k].caption = Caption(k, tokens[k].page_i)
        /\ tokens[k].key = Fname(uploaded_file.name, tokens[k].page_i, k,
                                 SplitLast(tokens[k].key, <<".">>))

\* C10: every bucket URL in the content of a record of the metadata store,
\* other than the record a delete_document call was last made for, names an
\* object that is in the bucket: a delete takes no blob from another record.
C10_RecordsReferenceLiveBlobs ==
    \A r \in db : r.id # delInfo.id => FilesToRemove(r.content) \subseteq bucket


====
